---- MODULE Spec2Model ----
(***************************************************************************)
(* Model of the energy-metrics engine of the Audit App                     *)
(* (core/data_parser.py) and of the handler that assembles an audit from   *)
(* it (app.py, render_data_to_json).                                       *)
(*                                                                         *)
(* Number representation.  The code works on float64; the model works on   *)
(* exact scaled integers:                                                  *)
(*   - a reading (power) is an integer number of 0.001 W,                  *)
(*   - a timestamp is an integer number of seconds,                        *)
(*   - a value the code rounds to 2 decimals is an integer number of 0.01, *)
(*   - an energy the code rounds to 4 decimals is an integer number of     *)
(*     0.0001 kWh.                                                         *)
(* round() is Python's: to nearest, an exact tie to the even neighbour.    *)
(* (On float64 a decimal tie that has no exact binary form goes the way    *)
(* its binary value lies; the properties below that involve such a        *)
(* rounding are stated so that they hold for either direction.)           *)
(* A column that cannot be converted to numbers (text cells) is named in   *)
(* the table's field text.                                                 *)
(* A Python dict whose key order matters (details) is a sequence of        *)
(* [key, value] pairs; other dicts are functions on their key set, and {}  *)
(* is the empty function <<>>.                                             *)
(***************************************************************************)
EXTENDS Integers, Sequences, FiniteSets, TLC

VARIABLES uploaded_file, df, call, last_audit_results, store, ui_error,
          disk, db, ops, batch

\* The literature database (its directory and the LiteratureDB objects of
\* the sessions) and the batch analysis of uploaded papers.
lit_vars == <<disk, db, ops, batch>>

vars == <<uploaded_file, df, call, last_audit_results, store, ui_error,
          disk, db, ops, batch>>

\* ------------------------------------------------------------- bounds
MaxRows == 3

\* ------------------------------------------------------ program constants
WsPerKWh == 3600000

vars_elektrisch ==
  << "Hauptversorgung", "24V-Versorgung", "Antriebe", "Bandfilteranlage",
     "Hebepumpe", "Kühlung", "KühlungSchaltschrank", "Späneförderer" >>

vars_pneumatisch ==
  << "AirPower_Hauptversorgung", "AirPower_Blum", "AirPower_Hauptventilblock",
     "AirPower_BlasluftKegelreinigung", "AirPower_KlemmungTisch",
     "AirPower_NPS", "AirPower_Werkzeugkühlung",
     "AirPower_ÖlLuftschmierungSpindel", "AirPower_Sperrluft",
     "AirPower_BlasluftSpindelMitte" >>

TimeCol == "elapsedTime"

\* ------------------------------------------------------------ arithmetic
RECURSIVE SumSeq(_)
SumSeq(s) == IF s = <<>> THEN 0 ELSE Head(s) + SumSeq(Tail(s))

RECURSIVE SumSq(_)
SumSq(s) == IF s = <<>> THEN 0 ELSE Head(s) * Head(s) + SumSq(Tail(s))

\* Python round(): num/den (den > 0) to the nearest integer, ties to even.
RoundHalfEven(num, den) ==
  LET q == num \div den
      r == num % den
  IN  IF 2 * r < den THEN q
      ELSE IF 2 * r > den THEN q + 1
      ELSE IF q % 2 = 0 THEN q ELSE q + 1

\* round(x, 2) of x = num/den readings (0.001 W), in units of 0.01 W.
Round2(num, den) == RoundHalfEven(num, 10 * den)

RECURSIVE IsqrtIn(_, _, _)
IsqrtIn(x, lo, hi) ==
  IF lo >= hi THEN lo
  ELSE LET mid == (lo + hi + 1) \div 2
       IN  IF mid * mid <= x THEN IsqrtIn(x, mid, hi)
           ELSE IsqrtIn(x, lo, mid - 1)

\* floor(sqrt(x)) for 0 <= x < 2^31
Isqrt(x) == IsqrtIn(x, 0, 46340)

\* ---------------------------------------------------------- numpy / pandas
columns(d) == DOMAIN d.col

to_numpy(d, c) == d.col[c]

np_max(values) ==
  CHOOSE m \in {values[i] : i \in DOMAIN values} :
    \A i \in DOMAIN values : values[i] <= m

np_min(values) ==
  CHOOSE m \in {values[i] : i \in DOMAIN values} :
    \A i \in DOMAIN values : values[i] >= m

\* Mutant: the last index of the maximum.
np_argmax_last(values) ==
  CHOOSE i \in DOMAIN values :
    /\ values[i] = np_max(values)
    /\ \A j \in DOMAIN values : values[j] = values[i] => j <= i

\* np.argmax: the first index of the maximum (1-based here).
np_argmax(values) ==
  CHOOSE i \in DOMAIN values :
    /\ values[i] = np_max(values)
    /\ \A j \in DOMAIN values : values[j] = values[i] => i <= j

RECURSIVE Insert(_, _)
Insert(x, s) ==
  IF s = <<>> THEN <<x>>
  ELSE IF x <= Head(s) THEN <<x>> \o s
  ELSE <<Head(s)>> \o Insert(x, Tail(s))

RECURSIVE Sorted(_)
Sorted(s) == IF s = <<>> THEN <<>> ELSE Insert(Head(s), Sorted(Tail(s)))

\* round(np.mean(values), 2)
np_mean2(values) == Round2(SumSeq(values), Len(values))

\* Mutant: the upper middle value for an even count (no averaging).
np_median2_upper_middle(values) ==
  Round2(Sorted(values)[Len(values) \div 2 + 1], 1)

\* round(np.median(values), 2)
np_median2(values) ==
  LET s == Sorted(values)
      n == Len(values)
  IN  IF n % 2 = 1 THEN Round2(s[(n + 1) \div 2], 1)
      ELSE Round2(s[n \div 2] + s[n \div 2 + 1], 2)

\* round(np.std(values), 2): population standard deviation
\* sqrt(D) / n readings with D = n * sum(v^2) - sum(v)^2, i.e.
\* sqrt(D) / (10 n) in units of 0.01 W.
np_std2(values) ==
  LET n  == Len(values)
      D  == n * SumSq(values) - SumSeq(values) * SumSeq(values)
      rf == Isqrt(D \div (100 * n * n))
      tie == 100 * n * n * (rf * rf + rf) + 25 * n * n
  IN  IF D > tie THEN rf + 1
      ELSE IF D < tie THEN rf
      ELSE IF rf % 2 = 0 THEN rf ELSE rf + 1

\* 2 * np.trapz(values, time): twice the trapezoidal integral, in 0.001 W s
\* (0 for fewer than two samples).
RECURSIVE Trapz2From(_, _, _)
Trapz2From(values, time, i) ==
  IF i >= Len(values) THEN 0
  ELSE (values[i] + values[i + 1]) * (time[i + 1] - time[i])
       + Trapz2From(values, time, i + 1)

np_trapz2(values, time) == Trapz2From(values, time, 1)

\* Mutant: mean * duration instead of the trapezoidal integral.
energy_kWh4_mean_duration(values, time) ==
  RoundHalfEven(SumSeq(values) * (time[Len(time)] - time[1]),
                Len(values) * 1000 * (WsPerKWh \div 10000))

\* round(np.trapz(values, time) / 3_600_000.0, 4), in units of 0.0001 kWh:
\* trapz2 / (2 * 1000 * 3600000 / 10000).
energy_kWh4(values, time) ==
  RoundHalfEven(np_trapz2(values, time), 2 * 1000 * (WsPerKWh \div 10000))

\* Mutant: the per-sample mean of the channels instead of their sum.
RECURSIVE RowSumOf(_, _, _)
RowSumOf(d, vs, i) ==
  IF vs = <<>> THEN 0 ELSE d.col[Head(vs)][i] + RowSumOf(d, Tail(vs), i)

sum_axis1_mean(d, vs) == [i \in 1..d.n |-> RowSumOf(d, vs, i) \div Len(vs)]

\* Mutant: every channel sorted before the sum, so that the group's extremes
\* are the sums of the channels' extremes.
RECURSIVE RowSumSorted(_, _, _)
RowSumSorted(d, vs, i) ==
  IF vs = <<>> THEN 0
  ELSE Sorted(d.col[Head(vs)])[i] + RowSumSorted(d, Tail(vs), i)

sum_axis1_sorted(d, vs) == [i \in 1..d.n |-> RowSumSorted(d, vs, i)]

\* Mutant: the integral of the first channel only.
sum_axis1_first(d, vs) == [i \in 1..d.n |-> d.col[Head(vs)][i]]

\* df[valid_vars].sum(axis=1): the per-sample sum of the channels.
RECURSIVE RowSum(_, _, _)
RowSum(d, vs, i) ==
  IF vs = <<>> THEN 0 ELSE d.col[Head(vs)][i] + RowSum(d, Tail(vs), i)

sum_axis1(d, vs) == [i \in 1..d.n |-> RowSum(d, vs, i)]

\* Mutant: stops at the first listed channel that is absent.
RECURSIVE valid_vars_until_absent(_, _)
valid_vars_until_absent(d, vars_group) ==
  IF vars_group = <<>> THEN <<>>
  ELSE IF Head(vars_group) \in columns(d)
       THEN <<Head(vars_group)>> \o valid_vars_until_absent(d, Tail(vars_group))
       ELSE <<>>

\* [v for v in vars_group if v in df.columns]
RECURSIVE valid_vars(_, _)
valid_vars(d, vars_group) ==
  IF vars_group = <<>> THEN <<>>
  ELSE IF Head(vars_group) \in columns(d)
       THEN <<Head(vars_group)>> \o valid_vars(d, Tail(vars_group))
       ELSE valid_vars(d, Tail(vars_group))

EmptyDict == <<>>

dict_get(d, k, default) == IF k \in DOMAIN d THEN d[k] ELSE default

\* -------------------------------------------------------------- DataParser
\* Mutant: range is the maximum (the minimum is not subtracted).
variable_metrics_range_is_max(values, time) ==
  [ mean             |-> np_mean2(values),
    median           |-> np_median2(values),
    max              |-> Round2(np_max(values), 1),
    min              |-> Round2(np_min(values), 1),
    std_dev          |-> np_std2(values),
    range            |-> Round2(np_max(values), 1),
    total_energy_kWh |-> energy_kWh4(values, time),
    time_of_peak     |-> 100 * time[np_argmax(values)] ]

\* The per-channel record of compute_metrics (details[var]).
variable_metrics(values, time) ==
  [ mean             |-> np_mean2(values),
    median           |-> np_median2(values),
    max              |-> Round2(np_max(values), 1),
    min              |-> Round2(np_min(values), 1),
    std_dev          |-> np_std2(values),
    range            |-> Round2(np_max(values) - np_min(values), 1),
    total_energy_kWh |-> energy_kWh4(values, time),
    time_of_peak     |-> 100 * time[np_argmax(values)] ]

\* Mutant: the group summary with all fields of the per-channel record.
group_summary_all_fields(combined_values, time) ==
  variable_metrics(combined_values, time)

\* The group_summary record of compute_metrics.
group_summary(combined_values, time) ==
  [ mean             |-> np_mean2(combined_values),
    max              |-> Round2(np_max(combined_values), 1),
    min              |-> Round2(np_min(combined_values), 1),
    std_dev          |-> np_std2(combined_values),
    range            |-> Round2(np_max(combined_values) - np_min(combined_values), 1),
    total_energy_kWh |-> energy_kWh4(combined_values, time) ]

Raise(exc) == [raised |-> exc, details |-> <<>>, summary |-> EmptyDict]

Return(details, summary) ==
  [raised |-> "None", details |-> details, summary |-> summary]

\* The loop over valid_vars that fills details.
details_of(d, vv, time) ==
  [k \in 1..Len(vv) |->
     [key |-> vv[k], value |-> variable_metrics(to_numpy(d, vv[k]), time)]]

\* Mutant: the empty-group return comes before the time-column check.
compute_metrics_group_first(d, vars_group, time_col) ==
  LET vv == valid_vars(d, vars_group)
  IN  IF vv = <<>> THEN Return(<<>>, EmptyDict)
      ELSE IF time_col \notin columns(d) THEN Raise("ValueError")
      ELSE IF d.n = 0 THEN Raise("IndexError")
      ELSE IF \E k \in DOMAIN vv : vv[k] \in d.text THEN Raise("ValueError")
      ELSE Return(details_of(d, vv, to_numpy(d, time_col)),
                  group_summary(sum_axis1(d, vv), to_numpy(d, time_col)))

\* DataParser.compute_metrics(df, vars_group, time_col)
compute_metrics(d, vars_group, time_col) ==
  IF time_col \notin columns(d) THEN Raise("ValueError")
  ELSE IF d.n = 0 THEN Raise("IndexError")        \* time[-1] on an empty array
  ELSE
    LET time == to_numpy(d, time_col)
        vv   == valid_vars(d, vars_group)
    IN  IF vv = <<>> THEN Return(<<>>, EmptyDict)
        ELSE IF \E k \in DOMAIN vv : vv[k] \in d.text
             THEN Raise("ValueError")             \* to_numpy(dtype=float)
        ELSE Return(details_of(d, vv, time),
                    group_summary(sum_axis1(d, vv), time))

\* The float returned by calculate_duty_cycle, in units of 0.01 %; nan is
\* float('nan').
Float(v) == [nan |-> FALSE, value |-> v]

NaN == [nan |-> TRUE, value |-> 0]

\* Mutant: >= instead of >.
active_samples_geq(d, vv, mean_power) ==
  Cardinality({i \in 1..d.n : RowSum(d, vv, i) >= Len(vv) * mean_power})

\* np.sum(group_mean > 0.1 * mean_power): group_mean is the per-sample mean
\* of the Len(vv) channels (readings, 0.001 W), mean_power is in 0.01 W,
\* so 0.1 * mean_power is mean_power readings.
active_samples(d, vv, mean_power) ==
  Cardinality({i \in 1..d.n : RowSum(d, vv, i) > Len(vv) * mean_power})

\* Mutant: no early return for mean_power == 0.
calculate_duty_cycle_no_zero_check(d, vars_group, mean_power) ==
  IF vars_group = <<>> THEN Float(0)
  ELSE
    LET vv == valid_vars(d, vars_group)
    IN  IF vv = <<>> THEN Float(0)
        ELSE IF d.n = 0 THEN NaN
        ELSE Float(RoundHalfEven(active_samples(d, vv, mean_power) * 10000, d.n))

\* DataParser.calculate_duty_cycle(df, vars_group, mean_power)
calculate_duty_cycle(d, vars_group, mean_power) ==
  IF vars_group = <<>> \/ mean_power = 0 THEN Float(0)
  ELSE
    LET vv == valid_vars(d, vars_group)
    IN  IF vv = <<>> THEN Float(0)
        ELSE IF d.n = 0 THEN NaN                  \* numpy: 0 / 0 is nan
        ELSE Float(RoundHalfEven(active_samples(d, vv, mean_power) * 10000, d.n))

\* ------------------------------------------------- app.render_data_to_json
machine_name == "CNC_Milling_1"

upload_name == "messung.csv"

\* f"audit_{machine_name}_{uploaded_file.name.split('.')[0]}.json"
\* A file name is its text before a final ".json" (stem) and that suffix, if
\* it has one (ext is ".json" or "").
audit_filename == [stem |-> "audit_CNC_Milling_1_messung", ext |-> ".json"]

\* df["elapsedTime"].iloc[-1] - df["elapsedTime"].iloc[0]
duration_sec(d) == d.col[TimeCol][d.n] - d.col[TimeCol][1]

\* Mutant: divides whenever the duration is not 0.
energy_rate_nonzero(te, dur) ==
  IF dur > 0 THEN RoundHalfEven(te * 3600, dur)
  ELSE IF dur < 0 THEN -RoundHalfEven(te * 3600, -dur)
  ELSE 0

\* round(total_energy / (duration_sec / 3600), 4) if duration_sec > 0 else 0
energy_rate(te, dur) ==
  IF dur > 0 THEN RoundHalfEven(te * 3600, dur) ELSE 0

\* Mutant: the sum of the per-channel energies of the two groups.
RECURSIVE details_energy(_)
details_energy(details) ==
  IF details = <<>> THEN 0
  ELSE Head(details).value.total_energy_kWh + details_energy(Tail(details))

total_energy_from_details(elek, pneu) ==
  details_energy(elek.details) + details_energy(pneu.details)

\* round(elek_total.get("total_energy_kWh", 0)
\*       + pneu_total.get("total_energy_kWh", 0), 4)
\* of the two results (details, summary) of compute_metrics.
total_energy(elek, pneu) ==
  dict_get(elek.summary, "total_energy_kWh", 0)
  + dict_get(pneu.summary, "total_energy_kWh", 0)

\* Mutant: the mean over the groups that have a summary.
mean_power_nonempty_groups(elek, pneu) ==
  LET k == (IF elek.summary = EmptyDict THEN 0 ELSE 1)
           + (IF pneu.summary = EmptyDict THEN 0 ELSE 1)
  IN  IF k = 0 THEN 0
      ELSE RoundHalfEven(dict_get(elek.summary, "mean", 0)
                         + dict_get(pneu.summary, "mean", 0), k)

\* round((elek_total.get("mean", 0) + pneu_total.get("mean", 0)) / 2, 2)
mean_power(elek, pneu) ==
  RoundHalfEven(dict_get(elek.summary, "mean", 0)
                + dict_get(pneu.summary, "mean", 0), 2)

\* Mutant: a group object carries its "Total ..." item only when the group
\* has a summary.
group_object_if_measured(total_key, out, duty) ==
  IF out.summary = EmptyDict
  THEN ("Variables" :> out.details) @@ ("Duty Cycle (%)" :> duty)
  ELSE ("Variables" :> out.details) @@ (total_key :> out.summary)
       @@ ("Duty Cycle (%)" :> duty)

results_dict_total_if_measured(d) ==
  LET elek == compute_metrics(d, vars_elektrisch, TimeCol)
      pneu == compute_metrics(d, vars_pneumatisch, TimeCol)
      duty_elek == calculate_duty_cycle(d, vars_elektrisch,
                                        dict_get(elek.summary, "mean", 0))
      duty_pneu == calculate_duty_cycle(d, vars_pneumatisch,
                                        dict_get(pneu.summary, "mean", 0))
      dur == duration_sec(d)
  IN  ("metadata" :>
          [ machine_name |-> machine_name, operator |-> "Admin",
            machine_state |-> "Idle", material |-> "Aluminum",
            duration_seconds |-> 100 * dur,
            unit_power |-> "W", unit_energy |-> "kWh" ])
      @@ ("Elektrisch" :> group_object_if_measured("Total Elektrisch", elek, duty_elek))
      @@ ("Pneumatisch" :> group_object_if_measured("Total Pneumatisch", pneu, duty_pneu))
      @@ ("Overall Summary" :>
            (("Total Energy (kWh)" :> total_energy(elek, pneu))
             @@ ("Mean Power (W)" :> mean_power(elek, pneu))
             @@ ("Energy Rate (kWh/hour)" :> energy_rate(total_energy(elek, pneu), dur))
             @@ ("Top Variables" :> EmptyDict)))

\* The results dict built when "Metriken berechnen" is pressed; the caller
\* has checked that no call raises.
results_dict(d) ==
  LET elek == compute_metrics(d, vars_elektrisch, TimeCol)
      pneu == compute_metrics(d, vars_pneumatisch, TimeCol)
      duty_elek == calculate_duty_cycle(d, vars_elektrisch,
                                        dict_get(elek.summary, "mean", 0))
      duty_pneu == calculate_duty_cycle(d, vars_pneumatisch,
                                        dict_get(pneu.summary, "mean", 0))
      dur == duration_sec(d)
  IN  ("metadata" :>
          [ machine_name |-> machine_name, operator |-> "Admin",
            machine_state |-> "Idle", material |-> "Aluminum",
            duration_seconds |-> 100 * dur,
            unit_power |-> "W", unit_energy |-> "kWh" ])
      @@ ("Elektrisch" :>
            (("Variables" :> elek.details)
             @@ ("Total Elektrisch" :> elek.summary)
             @@ ("Duty Cycle (%)" :> duty_elek)))
      @@ ("Pneumatisch" :>
            (("Variables" :> pneu.details)
             @@ ("Total Pneumatisch" :> pneu.summary)
             @@ ("Duty Cycle (%)" :> duty_pneu)))
      @@ ("Overall Summary" :>
            (("Total Energy (kWh)" :> total_energy(elek, pneu))
             @@ ("Mean Power (W)" :> mean_power(elek, pneu))
             @@ ("Energy Rate (kWh/hour)" :> energy_rate(total_energy(elek, pneu), dur))
             @@ ("Top Variables" :> EmptyDict)))

\* The file written by save_audit: ".json" is appended to a name that does
\* not end with it.
audit_path(filename) ==
  IF filename.ext = ".json" THEN filename ELSE [filename EXCEPT !.ext = ".json"]

\* WorkingStore.save_audit(audit_json, filename): the directory after the
\* call (file name -> content; json.dump is not modelled, the content is the
\* audit).
save_audit(st, audit_json, filename) ==
  [f \in DOMAIN st \cup {audit_path(filename)} |->
     IF f = audit_path(filename) THEN audit_json ELSE st[f]]

\* WorkingStore.load_audit(filename): <<the content>>, or <<>> for None.
load_audit(st, filename) ==
  IF filename \in DOMAIN st THEN <<st[filename]>> ELSE <<>>

\* WorkingStore.list_audits(): the names matching *.json.
list_audits(st) == {f \in DOMAIN st : f.ext = ".json"}

\* WorkingStore.delete_audit(filename): the directory after the call.
delete_audit(st, filename) == [f \in DOMAIN st \ {filename} |-> st[f]]

\* ------------------------------------------------------------ LiteratureDB
\* The directory data/literature: index.json (a list of entries; a missing
\* file reads as the empty list), the files of json/ (name -> content) and
\* the names of the files of papers/.  A file of json/ or papers/ is named by
\* its entry id (id.json, id.pdf).
EmptyDisk == [index |-> <<>>, json |-> <<>>, pdf |-> {}]

\* LiteratureDB._load_index()
load_index(dk) == dk.index

\* The ids of an index (a list of entries).
index_ids(index) == {index[k].id : k \in DOMAIN index}

\* [e for e in self.index if e["id"] != filename]
index_without(index, id) == SelectSeq(index, LAMBDA e : e.id # id)

\* A paper_json is a JSON value: kind "object" (a dict whose paper_metadata
\* has the title given) or "array" (a list, which has no .get).  The entry's
\* authors and date are not modelled.
entry_of(paper_json, pdf_file, filename) ==
  [ id        |-> filename,
    title     |-> paper_json.title,
    json_path |-> filename,
    pdf_path  |-> IF pdf_file # "None" THEN <<filename>> ELSE <<>> ]

\* The files after add_entry has written the JSON and, if given, the PDF.
write_files(dk, paper_json, pdf_file, filename) ==
  [dk EXCEPT
     !.json = [f \in DOMAIN dk.json \cup {filename} |->
                 IF f = filename THEN paper_json ELSE dk.json[f]],
     !.pdf  = IF pdf_file # "None" THEN dk.pdf \cup {filename} ELSE dk.pdf]

\* The filename add_entry uses: the one given or, without one (""), the title
\* of the paper, "unknown_paper" if it has none ("None").  The titles of the
\* model consist of letters, digits and "_", which the sanitising step leaves
\* as they are.
entry_filename(paper_json, filename) ==
  IF filename # "" THEN filename
  ELSE IF paper_json.title = "None" THEN "unknown_paper"
  ELSE paper_json.title

\* Mutant: the new entry is appended without removing an entry of that id.
add_entry_appends(index, dk, paper_json, pdf_file, filename) ==
  IF paper_json.kind # "object"
  THEN [raised |-> "AttributeError", out |-> <<>>, index |-> index,
        disk |-> IF filename = "" THEN dk
                 ELSE write_files(dk, paper_json, pdf_file, filename)]
  ELSE LET name == entry_filename(paper_json, filename)
           idx == index \o <<entry_of(paper_json, pdf_file, name)>>
       IN  [raised |-> "None", out |-> entry_of(paper_json, pdf_file, name),
            index |-> idx,
            disk |-> [write_files(dk, paper_json, pdf_file, name)
                        EXCEPT !.index = idx]]

\* LiteratureDB.add_entry(paper_json, pdf_file, filename) on an object whose
\* self.index is index: what is raised or returned, self.index and the
\* directory after the call.
add_entry(index, dk, paper_json, pdf_file, filename) ==
  IF paper_json.kind # "object"
  THEN \* paper_json.get raises: at once without a filename, else after the
       \* files are written
       [raised |-> "AttributeError", out |-> <<>>, index |-> index,
        disk |-> IF filename = "" THEN dk
                 ELSE write_files(dk, paper_json, pdf_file, filename)]
  ELSE LET name == entry_filename(paper_json, filename)
           idx == index_without(index, name)
                  \o <<entry_of(paper_json, pdf_file, name)>>
       IN  [raised |-> "None", out |-> entry_of(paper_json, pdf_file, name),
            index |-> idx,
            disk |-> [write_files(dk, paper_json, pdf_file, name)
                        EXCEPT !.index = idx]]

\* next((e for e in self.index if e["id"] == entry_id), None), for an id
\* that is in the index
first_entry(index, entry_id) ==
  index[CHOOSE k \in DOMAIN index :
          /\ index[k].id = entry_id
          /\ \A j \in 1..(k - 1) : index[j].id # entry_id]

\* LiteratureDB.get_entry_by_id(entry_id): <<the content>>, <<>> for None,
\* or what open() raises.
get_entry_by_id(index, dk, entry_id) ==
  IF entry_id \notin index_ids(index) THEN [raised |-> "None", out |-> <<>>]
  ELSE LET entry == first_entry(index, entry_id)
       IN  IF entry.json_path \notin DOMAIN dk.json
           THEN [raised |-> "FileNotFoundError", out |-> <<>>]
           ELSE [raised |-> "None", out |-> <<dk.json[entry.json_path]>>]

\* LiteratureDB.delete_entry(entry_id): the returned bool, self.index and
\* the directory after the call.
delete_entry(index, dk, entry_id) ==
  IF entry_id \notin index_ids(index)
  THEN [out |-> FALSE, index |-> index, disk |-> dk]
  ELSE LET entry == first_entry(index, entry_id)
           idx == index_without(index, entry_id)
       IN  [out |-> TRUE, index |-> idx,
            disk |-> [ index |-> idx,
                       json  |-> [f \in DOMAIN dk.json \ {entry.json_path} |->
                                    dk.json[f]],
                       pdf   |-> IF entry.pdf_path # <<>>
                                 THEN dk.pdf \ {entry.pdf_path[1]}
                                 ELSE dk.pdf ]]

\* ------------------------------------------------------------ input tables
Columns == {TimeCol, "Hauptversorgung", "Antriebe", "AirPower_Blum"}

\* Differences of consecutive timestamps (seconds): irregular sampling, and
\* files whose timestamps go back.
Deltas == {-1000, 1000, 3000}

\* Readings of a channel, in 0.001 W (the measurement files carry more than
\* two decimals).
Readings(c) ==
  IF c = "Hauptversorgung" THEN {6, 2004}
  ELSE IF c = "Antriebe" THEN {300, 2000}
  ELSE {0, 2000}

RECURSIVE Prefix(_, _)
Prefix(ds, i) == IF i = 0 THEN 0 ELSE ds[i] + Prefix(ds, i - 1)

TimeSeqs(n) ==
  IF n = 0 THEN {<<>>}
  ELSE {[i \in 1..n |-> Prefix(ds, i - 1)] : ds \in [1..(n - 1) -> Deltas]}

ReadingSeqs(c, n) ==
  IF c = "AirPower_Blum"
  THEN {[i \in 1..n |-> v] : v \in Readings(c)}
  ELSE [1..n -> Readings(c)]

\* A column that may be absent: <<>> or <<the column>>.
Opt(S) == {<<>>} \cup {<<s>> : s \in S}

MkTable(n, t, a, b, p) ==
  LET present == (IF t = <<>> THEN {} ELSE {TimeCol})
                 \cup (IF a = <<>> THEN {} ELSE {"Hauptversorgung"})
                 \cup (IF b = <<>> THEN {} ELSE {"Antriebe"})
                 \cup (IF p = <<>> THEN {} ELSE {"AirPower_Blum"})
  IN  [ n   |-> n,
        text |-> {},
        col |-> [c \in present |->
                   IF c = TimeCol THEN t[1]
                   ELSE IF c = "Hauptversorgung" THEN a[1]
                   ELSE IF c = "Antriebe" THEN b[1]
                   ELSE p[1]] ]

TablesN(n) ==
  { MkTable(n, t, a, b, p) :
      t \in Opt(TimeSeqs(n)),
      a \in Opt(ReadingSeqs("Hauptversorgung", n)),
      b \in Opt(ReadingSeqs("Antriebe", n)),
      p \in Opt(ReadingSeqs("AirPower_Blum", n)) }

Tables == UNION {TablesN(n) : n \in 0..MaxRows}

\* The table t with text cells in channel column c (the cells themselves
\* are not represented: the column holds 0).
Textify(t, c) ==
  [ n |-> t.n,
    text |-> {c},
    col |-> [x \in DOMAIN t.col |->
               IF x = c THEN [i \in 1..t.n |-> 0] ELSE t.col[x]] ]

\* Tables in which one channel column cannot be converted to numbers.
TextTables ==
  UNION { { Textify(t, c) : c \in {"Antriebe", "AirPower_Blum"} \cap DOMAIN t.col } :
            t \in {u \in Tables : u.n > 0} }

\* Group lists and mean powers (0.01 W) of direct calls of the DataParser.
GroupLists ==
  { <<>>, vars_elektrisch, <<"AirPower_Blum", "Antriebe", "Hauptversorgung">>,
    <<"Hebepumpe">> }

MeanPowers == {-30, 0, 300}

NoTable == [n |-> 0, text |-> {}, col |-> <<>>]

NoCall == [op |-> "none"]

\* ----------------------------------------------------------------- actions
\* No LiteratureDB object yet in a session.
NoDB == [open |-> FALSE, index |-> <<>>]

Sessions == {1, 2}

NoBatch == [status |-> "idle", files |-> <<>>, i |-> 0, log |-> <<>>]

Init ==
  /\ uploaded_file = "None"
  /\ df = NoTable
  /\ call = NoCall
  /\ last_audit_results = <<>>
  /\ store = <<>>
  /\ ui_error = "None"
  /\ disk = EmptyDisk
  /\ db = [s \in Sessions |-> NoDB]
  /\ ops = 0
  /\ batch = NoBatch

\* A file is put into the uploader and the script reruns without the button:
\* read_file, then the check for the elapsedTime column.
Upload(t) ==
  /\ uploaded_file = "None"
  /\ uploaded_file' = upload_name
  /\ df' = t
  /\ ui_error' = IF TimeCol \notin columns(t) THEN "missing_elapsedTime" ELSE "None"
  /\ UNCHANGED <<call, last_audit_results, store>>
  /\ UNCHANGED lit_vars

\* The audit of a table in which no group has a present channel.
empty_results ==
  ("metadata" :>
     [ machine_name |-> machine_name, operator |-> "Admin",
       machine_state |-> "Idle", material |-> "Aluminum",
       duration_seconds |-> 0,
       unit_power |-> "W", unit_energy |-> "kWh" ])
  @@ ("Elektrisch" :>
        (("Variables" :> <<>>) @@ ("Total Elektrisch" :> EmptyDict)
         @@ ("Duty Cycle (%)" :> Float(0))))
  @@ ("Pneumatisch" :>
        (("Variables" :> <<>>) @@ ("Total Pneumatisch" :> EmptyDict)
         @@ ("Duty Cycle (%)" :> Float(0))))
  @@ ("Overall Summary" :>
        (("Total Energy (kWh)" :> 0) @@ ("Mean Power (W)" :> 0)
         @@ ("Energy Rate (kWh/hour)" :> 0) @@ ("Top Variables" :> EmptyDict)))

\* Mutant: without the time column the handler still saves an (empty) audit.
PressCompute_saves_without_time_column ==
  /\ uploaded_file # "None"
  /\ call = NoCall
  /\ call' = [op |-> "render_data_to_json"]
  /\ IF TimeCol \notin columns(df)
     THEN /\ ui_error' = "missing_elapsedTime"
          /\ store' = save_audit(store, empty_results, audit_filename)
          /\ last_audit_results' = <<empty_results>>
     ELSE IF \/ compute_metrics(df, vars_elektrisch, TimeCol).raised # "None"
             \/ compute_metrics(df, vars_pneumatisch, TimeCol).raised # "None"
     THEN /\ ui_error' = "Fehler bei der Verarbeitung"
          /\ UNCHANGED <<last_audit_results, store>>
     ELSE LET results == results_dict(df)
          IN  /\ ui_error' = "None"
              /\ store' = save_audit(store, results, audit_filename)
              /\ last_audit_results' = <<results>>
  /\ UNCHANGED <<uploaded_file, df>>
  /\ UNCHANGED lit_vars

\* A rerun of render_data_to_json with "Metriken berechnen" pressed.  The
\* handler and a direct call of the DataParser do not affect each other: a
\* run of the model observes one of them on the uploaded table, and call
\* names the one observed.
PressCompute ==
  /\ uploaded_file # "None"
  /\ call = NoCall
  /\ call' = [op |-> "render_data_to_json"]
  /\ IF TimeCol \notin columns(df)
     THEN /\ ui_error' = "missing_elapsedTime"
          /\ UNCHANGED <<last_audit_results, store>>
     ELSE IF \/ compute_metrics(df, vars_elektrisch, TimeCol).raised # "None"
             \/ compute_metrics(df, vars_pneumatisch, TimeCol).raised # "None"
     THEN /\ ui_error' = "Fehler bei der Verarbeitung"
          /\ UNCHANGED <<last_audit_results, store>>
     ELSE LET results == results_dict(df)
          IN  /\ ui_error' = "None"
              /\ store' = save_audit(store, results, audit_filename)
              /\ last_audit_results' = <<results>>
  /\ UNCHANGED <<uploaded_file, df>>
  /\ UNCHANGED lit_vars

\* Mutant: the call keeps only the time column and the group's columns in
\* the caller's table.
CallComputeMetrics_narrows_table(g) ==
  /\ uploaded_file # "None"
  /\ call = NoCall
  /\ df.text = {}
  /\ call' = [op |-> "compute_metrics", vars_group |-> g,
              out |-> compute_metrics(df, g, TimeCol)]
  /\ df' = [df EXCEPT !.col =
              [c \in {x \in DOMAIN df.col :
                        x = TimeCol \/ \E k \in DOMAIN g : g[k] = x} |-> df.col[c]]]
  /\ UNCHANGED <<uploaded_file, last_audit_results, store, ui_error>>
  /\ UNCHANGED lit_vars

\* A direct call DataParser.compute_metrics(df, g) (default time column).
\* Direct calls are observed on tables whose columns are all numeric.
CallComputeMetrics(g) ==
  /\ uploaded_file # "None"
  /\ call = NoCall
  /\ df.text = {}
  /\ call' = [op |-> "compute_metrics", vars_group |-> g,
              out |-> compute_metrics(df, g, TimeCol)]
  /\ UNCHANGED <<uploaded_file, df, last_audit_results, store, ui_error>>
  /\ UNCHANGED lit_vars

\* A direct call DataParser.calculate_duty_cycle(df, g, m).
CallDutyCycle(g, m) ==
  /\ uploaded_file # "None"
  /\ call = NoCall
  /\ df.text = {}
  /\ call' = [op |-> "calculate_duty_cycle", vars_group |-> g, mean_power |-> m,
              out |-> calculate_duty_cycle(df, g, m)]
  /\ UNCHANGED <<uploaded_file, df, last_audit_results, store, ui_error>>
  /\ UNCHANGED lit_vars

Next ==
  \/ uploaded_file = "None" /\ \E t \in Tables \cup TextTables : Upload(t)
  \/ PressCompute
  \/ call = NoCall /\ \E g \in GroupLists : CallComputeMetrics(g)
  \/ call = NoCall /\ \E g \in GroupLists, m \in MeanPowers : CallDutyCycle(g, m)

Spec == Init /\ [][Next]_vars

\* ------------------------------------------- WorkingStore, called directly
FileNames ==
  { [stem |-> s, ext |-> e] :
      s \in {"audit_CNC_Milling_1_messung", "backup", "audit_old"},
      e \in {"", ".json"} }

\* Two audits: of a table with one electrical channel, and of a table
\* without channels.
Audits ==
  { results_dict(MkTable(2, <<<<0, 1000>>>>, <<<<6, 2004>>>>, <<>>, <<>>)),
    empty_results }

StoreSave(a, f) ==
  /\ store' = save_audit(store, a, f)
  /\ call' = [op |-> "save_audit", audit_json |-> a, filename |-> f,
              out |-> audit_path(f)]
  /\ UNCHANGED <<uploaded_file, df, last_audit_results, ui_error>>
  /\ UNCHANGED lit_vars

StoreLoad(f) ==
  /\ call' = [op |-> "load_audit", filename |-> f, out |-> load_audit(store, f)]
  /\ UNCHANGED <<uploaded_file, df, last_audit_results, store, ui_error>>
  /\ UNCHANGED lit_vars

StoreList ==
  /\ call' = [op |-> "list_audits", out |-> list_audits(store)]
  /\ UNCHANGED <<uploaded_file, df, last_audit_results, store, ui_error>>
  /\ UNCHANGED lit_vars

StoreDelete(f) ==
  /\ store' = delete_audit(store, f)
  /\ call' = [op |-> "delete_audit", filename |-> f, out |-> f \in DOMAIN store]
  /\ UNCHANGED <<uploaded_file, df, last_audit_results, ui_error>>
  /\ UNCHANGED lit_vars

NextStore ==
  \/ \E a \in Audits, f \in FileNames : StoreSave(a, f)
  \/ \E f \in FileNames : StoreLoad(f)
  \/ StoreList
  \/ \E f \in FileNames : StoreDelete(f)

SpecStore == Init /\ [][NextStore]_vars

\* ------------------------------------------- LiteratureDB, called directly
\* Two sessions, each creating its LiteratureDB on the same directory
\* (app.py l.70 and l.303 create one at every render).
MaxOps == 3

PaperTitles == {"p1", "p2"}

Papers == {[kind |-> "object", title |-> t] : t \in PaperTitles}

\* The filename argument; "" stands for none given.
PaperFileNames == {"", "p1", "p2"}

\* The pdf_file argument; "None" stands for none given.
PdfFiles == {"None", "bytes"}

EntryIds == PaperFileNames \ {""}

audit_vars == <<uploaded_file, df, last_audit_results, store, ui_error>>

\* LiteratureDB(): the object of session i is created and loads the index.
Open(i) ==
  /\ db' = [db EXCEPT ![i] = [open |-> TRUE, index |-> load_index(disk)]]
  /\ call' = [op |-> "LiteratureDB", session |-> i]
  /\ UNCHANGED <<disk, ops, batch>>
  /\ UNCHANGED audit_vars

AddEntry(i, p, pdf, fn) ==
  /\ db[i].open
  /\ ops < MaxOps
  /\ LET r == add_entry(db[i].index, disk, p, pdf, fn)
         id == entry_filename(p, fn)
     IN  /\ disk' = r.disk
         /\ db' = [db EXCEPT ![i].index = r.index]
         /\ call' = [op |-> "add_entry", session |-> i, id |-> id,
                     pdf_file |-> pdf,
                     existed |-> id \in index_ids(db[i].index),
                     raised |-> r.raised, out |-> r.out]
  /\ ops' = ops + 1
  /\ UNCHANGED batch
  /\ UNCHANGED audit_vars

DeleteEntry(i, id) ==
  /\ db[i].open
  /\ ops < MaxOps
  /\ LET r == delete_entry(db[i].index, disk, id)
     IN  /\ disk' = r.disk
         /\ db' = [db EXCEPT ![i].index = r.index]
         /\ call' = [op |-> "delete_entry", session |-> i, id |-> id,
                     existed |-> id \in index_ids(db[i].index),
                     raised |-> "None", out |-> r.out]
  /\ ops' = ops + 1
  /\ UNCHANGED batch
  /\ UNCHANGED audit_vars

GetEntry(i, id) ==
  /\ db[i].open
  /\ LET r == get_entry_by_id(db[i].index, disk, id)
     IN  call' = [op |-> "get_entry_by_id", session |-> i, id |-> id,
                  raised |-> r.raised, out |-> r.out]
  /\ UNCHANGED <<disk, db, ops, batch>>
  /\ UNCHANGED audit_vars

NextLit ==
  \/ \E i \in Sessions : Open(i)
  \/ \E i \in Sessions, p \in Papers, pdf \in PdfFiles, fn \in PaperFileNames :
       AddEntry(i, p, pdf, fn)
  \/ \E i \in Sessions, id \in EntryIds : DeleteEntry(i, id)
  \/ \E i \in Sessions, id \in EntryIds : GetEntry(i, id)

SpecLit == Init /\ [][NextLit]_vars

\* ------------------------------------------------- batch paper analysis
\* app.render_paper_to_json: the button 'Papers analysieren'.  A text is a
\* sequence of characters.
MaxFiles == 2

\* The character U+0060.
Backtick == "backtick"

Fence == <<Backtick, Backtick, Backtick>>

FenceJson == Fence \o <<"j", "s", "o", "n">>

NL == <<"\n">>

Whitespace == {" ", "\n"}

ObjectText == <<"{", "}">>

ArrayText == <<"[", "]">>

\* The first characters of what a provider returns for a failed call
\* ("Error with Gemini (File): ...").
ErrorText == <<"E", "r", "r", "o", "r">>

\* str.strip()
strip(s) ==
  LET idx == {k \in DOMAIN s : s[k] \notin Whitespace}
  IN  IF idx = {} THEN <<>>
      ELSE SubSeq(s, CHOOSE a \in idx : \A k \in idx : a <= k,
                     CHOOSE b \in idx : \A k \in idx : k <= b)

\* str.startswith(prefix)
startswith(s, prefix) ==
  /\ Len(s) >= Len(prefix)
  /\ SubSeq(s, 1, Len(prefix)) = prefix

\* s[start:-3]
slice_to_minus3(s, start) ==
  IF Len(s) - 3 <= start THEN <<>> ELSE SubSeq(s, start + 1, Len(s) - 3)

\* The cleaning of the response, app.py l.105-109.
clean_response(response) ==
  LET clean_json == strip(response)
  IN  IF startswith(clean_json, FenceJson) THEN slice_to_minus3(clean_json, 7)
      ELSE IF startswith(clean_json, Fence) THEN slice_to_minus3(clean_json, 3)
      ELSE clean_json

\* json.loads on the texts of the model: the empty object, the empty array
\* (both with whitespace around them allowed), anything else is no JSON.
json_loads(s) ==
  LET t == strip(s)
  IN  IF t = ObjectText
      THEN [raised |-> "None", data |-> [kind |-> "object", title |-> "None"]]
      ELSE IF t = ArrayText
      THEN [raised |-> "None", data |-> [kind |-> "array", title |-> "None"]]
      ELSE [raised |-> "JSONDecodeError", data |-> <<>>]

\* What provider.generate_from_file may return for a file: JSON bare, in a
\* json fence, in a plain fence, with whitespace around it, a JSON array, an
\* unclosed fence, and the text of a provider error.
Responses ==
  { ObjectText,
    FenceJson \o NL \o ObjectText \o NL \o Fence,
    Fence \o NL \o ObjectText \o NL \o Fence,
    NL \o ObjectText \o NL,
    ArrayText,
    FenceJson \o NL \o ObjectText,
    ErrorText }

\* The names of the uploaded files: stem and extension ".pdf".
UploadNames == {[stem |-> s, ext |-> ".pdf"] : s \in {"p1", "p2"}}

\* pdf_file.name.replace(".pdf", "") for a name whose stem has no ".pdf"
replace_pdf(name) == name.stem

RECURSIVE SeqsUpTo(_, _)
SeqsUpTo(S, n) ==
  IF n = 0 THEN {<<>>}
  ELSE SeqsUpTo(S, n - 1)
       \cup {Append(q, x) : q \in {r \in SeqsUpTo(S, n - 1) : Len(r) = n - 1},
                            x \in S}

\* The button is pressed with the files given: the render creates its
\* LiteratureDB (l.70) and enters the loop.
StartBatch(files) ==
  /\ batch.status = "idle"
  /\ files # <<>>
  /\ db' = [db EXCEPT ![1] = [open |-> TRUE, index |-> load_index(disk)]]
  /\ batch' = [status |-> "running", files |-> files, i |-> 0, log |-> <<>>]
  /\ call' = [op |-> "LiteratureDB", session |-> 1]
  /\ UNCHANGED <<disk, ops>>
  /\ UNCHANGED audit_vars

\* One pass of the loop, the provider returning response (l.90-123).
ProcessFile(response) ==
  /\ batch.status = "running"
  /\ batch.i < Len(batch.files)
  /\ LET pdf_file == batch.files[batch.i + 1]
         parsed == json_loads(clean_response(response))
         r == add_entry(db[1].index, disk, parsed.data, "bytes",
                        replace_pdf(pdf_file))
     IN  IF parsed.raised # "None"
         THEN /\ batch' = [batch EXCEPT
                    !.i = @ + 1,
                    !.log = Append(@, [name |-> pdf_file, response |-> response,
                                       parsed |-> FALSE, added |-> FALSE,
                                       raised |-> parsed.raised])]
              /\ call' = [op |-> "json.loads", raised |-> parsed.raised]
              /\ UNCHANGED <<disk, db>>
         ELSE /\ batch' = [batch EXCEPT
                    !.i = @ + 1,
                    !.log = Append(@, [name |-> pdf_file, response |-> response,
                                       parsed |-> TRUE,
                                       added |-> r.raised = "None",
                                       raised |-> r.raised])]
              /\ call' = [op |-> "add_entry", session |-> 1,
                          id |-> replace_pdf(pdf_file), pdf_file |-> "bytes",
                          existed |-> replace_pdf(pdf_file)
                                        \in index_ids(db[1].index),
                          raised |-> r.raised, out |-> r.out]
              /\ disk' = r.disk
              /\ db' = [db EXCEPT ![1].index = r.index]
  /\ UNCHANGED ops
  /\ UNCHANGED audit_vars

\* The loop is over: status.update(state="complete"), l.125.
FinishBatch ==
  /\ batch.status = "running"
  /\ batch.i = Len(batch.files)
  /\ batch' = [batch EXCEPT !.status = "complete"]
  /\ UNCHANGED <<call, disk, db, ops>>
  /\ UNCHANGED audit_vars

NextBatch ==
  \/ \E files \in SeqsUpTo(UploadNames, MaxFiles) : StartBatch(files)
  \/ \E response \in Responses : ProcessFile(response)
  \/ FinishBatch

\* The loop is one synchronous run of the script: it goes on as long as the
\* provider's call returns.
SpecBatch == Init /\ [][NextBatch]_vars /\ WF_vars(NextBatch)

\* ------------------------------------------------------------------ claims
\* The items of a group object of an audit.
Total(entry) ==
  entry[CHOOSE k \in DOMAIN entry : k \in {"Total Elektrisch", "Total Pneumatisch"}]

DutyCycle(entry) == entry["Duty Cycle (%)"]

IsCM == call.op = "compute_metrics"

IsDC == call.op = "calculate_duty_cycle"

Range(g) == {g[k] : k \in DOMAIN g}

\* The channels of g that are columns of the uploaded table, in g's order.
PresentSeq(g) == SelectSeq(g, LAMBDA v : v \in columns(df))

RECURSIVE ChannelSum(_, _)
ChannelSum(S, i) ==
  IF S = {} THEN 0
  ELSE LET c == CHOOSE x \in S : TRUE
       IN  df.col[c][i] + ChannelSum(S \ {c}, i)

RECURSIVE Sigma(_, _, _)
Sigma(F(_), lo, hi) == IF lo > hi THEN 0 ELSE F(lo) + Sigma(F, lo + 1, hi)

Abs(x) == IF x < 0 THEN -x ELSE x

Keys(details) == [k \in DOMAIN details |-> details[k].key]

\* C1: compute_metrics on a table without the time column raises (ValueError)
\* and returns nothing, for every group list, also one with no channel in the
\* table.
C1_MissingTimeColumnRaises ==
  (IsCM /\ TimeCol \notin columns(df)) =>
    /\ call.out.raised = "ValueError"
    /\ call.out.details = <<>>
    /\ call.out.summary = EmptyDict

C1_Witness ==
  /\ IsCM
  /\ TimeCol \notin columns(df)
  /\ call.vars_group # <<>>
  /\ PresentSeq(call.vars_group) = <<>>
  /\ call.out.raised = "ValueError"

\* C2: on every table that has the time column and none of the group's
\* channels, compute_metrics returns ({}, {}) without raising, and the duty
\* cycle computed with the summary's mean defaulted to 0 is 0.
C2_EmptyGroupReturnsEmpty ==
  (IsCM /\ TimeCol \in columns(df) /\ PresentSeq(call.vars_group) = <<>>) =>
    /\ call.out.raised = "None"
    /\ call.out.details = <<>>
    /\ call.out.summary = EmptyDict
    /\ calculate_duty_cycle(df, call.vars_group,
                            dict_get(call.out.summary, "mean", 0)) = Float(0)

\* C3: with the time column present, an absent channel never makes
\* compute_metrics fail (the call fails only on a table without rows, and
\* gives what the call with the present channels alone gives); the keys of
\* details are the present channels in group-list order, and the summary is
\* that of the per-sample sum of the present channels.
C3_AbsentChannelsExcluded ==
  (IsCM /\ TimeCol \in columns(df)) =>
    LET vv  == PresentSeq(call.vars_group)
        out == call.out
        S(i) == ChannelSum(Range(vv), i)
    IN  /\ out = compute_metrics(df, vv, TimeCol)
        /\ (out.raised = "None") <=> (df.n > 0)
        /\ out.raised = "None" =>
             /\ Keys(out.details) = vv
             /\ vv = <<>> => out.summary = EmptyDict
             /\ vv # <<>> =>
                  /\ \E i \in 1..df.n : out.summary.max = RoundHalfEven(S(i), 10)
                  /\ \A i \in 1..df.n : out.summary.max >= RoundHalfEven(S(i), 10)
                  /\ \A i \in 1..df.n : out.summary.min <= RoundHalfEven(S(i), 10)
                  /\ out.summary.mean = RoundHalfEven(Sigma(S, 1, df.n), 10 * df.n)

C3_Witness ==
  /\ IsCM
  /\ TimeCol \in columns(df)
  /\ call.out.raised = "None"
  /\ Len(PresentSeq(call.vars_group)) = 2
  /\ Len(call.vars_group) > 2
  /\ Keys(call.out.details) = <<"Antriebe", "Hauptversorgung">>

\* C4: for n >= 2 samples a channel's total_energy_kWh is the trapezoidal sum
\* over consecutive samples of (v[i] + v[i+1]) / 2 * (t[i+1] - t[i]), divided
\* by 3,600,000 and rounded to 4 decimals.
C4_TrapezoidalEnergy ==
  (IsCM /\ call.out.raised = "None" /\ df.n >= 2) =>
    \A k \in DOMAIN call.out.details :
      LET v == df.col[call.out.details[k].key]
          t == df.col[TimeCol]
          Step(i) == (v[i] + v[i + 1]) * (t[i + 1] - t[i])
      IN  call.out.details[k].value.total_energy_kWh
            = RoundHalfEven(Sigma(Step, 1, df.n - 1), 720000)

\* Irregular timestamps, and the energy differs from mean * duration.
C4_Witness ==
  /\ IsCM
  /\ call.out.raised = "None"
  /\ df.n >= 3
  /\ \E k \in DOMAIN call.out.details :
       LET v == df.col[call.out.details[k].key]
           t == df.col[TimeCol]
       IN  /\ t[2] - t[1] # t[3] - t[2]
           /\ t[2] > t[1] /\ t[3] > t[2]
           /\ call.out.details[k].value.total_energy_kWh
                # RoundHalfEven(SumSeq(v) * (t[df.n] - t[1]), df.n * 360000)

\* The splits of the present channels of the call into two non-empty parts.
Splits(vv) ==
  { <<SelectSeq(vv, LAMBDA c : c \in A), SelectSeq(vv, LAMBDA c : c \notin A)>> :
      A \in (SUBSET Range(vv)) \ {{}, Range(vv)} }

EnergyOf(g) == compute_metrics(df, g, TimeCol).summary.total_energy_kWh

\* C5 as stated: the group energy of A u B equals the sum of the group
\* energies of A and of B.
C5_EnergyLinearExact ==
  (IsCM /\ call.out.raised = "None") =>
    \A ab \in Splits(PresentSeq(call.vars_group)) :
      call.out.summary.total_energy_kWh = EnergyOf(ab[1]) + EnergyOf(ab[2])

\* C5 amended: the returned (4-decimal) group energy of A u B differs from
\* the sum of the returned group energies of A and of B by at most 0.0001 kWh.
C5_EnergyLinearWithinRounding ==
  (IsCM /\ call.out.raised = "None") =>
    \A ab \in Splits(PresentSeq(call.vars_group)) :
      Abs(call.out.summary.total_energy_kWh
          - (EnergyOf(ab[1]) + EnergyOf(ab[2]))) <= 1

C5_Witness ==
  /\ IsCM
  /\ call.out.raised = "None"
  /\ Len(PresentSeq(call.vars_group)) = 3
  /\ call.out.summary.total_energy_kWh > 1
  /\ \A ab \in Splits(PresentSeq(call.vars_group)) :
       EnergyOf(ab[1]) > 0 /\ EnergyOf(ab[2]) > 0

\* C6: the value returned by calculate_duty_cycle satisfies 0 <= d <= 100,
\* for all inputs.
C6_DutyCycleBounds ==
  IsDC => /\ ~call.out.nan
          /\ 0 <= call.out.value
          /\ call.out.value <= 10000

\* C7: with a non-zero mean power and a present channel, the duty cycle is
\* 100 * (samples whose mean over the present channels is strictly above
\* 0.1 * mean power) / (samples), rounded to 2 decimals.
C7_DutyCycleFormula ==
  (IsDC /\ call.mean_power # 0 /\ PresentSeq(call.vars_group) # <<>> /\ df.n > 0) =>
    LET S == Range(PresentSeq(call.vars_group))
        active == {i \in 1..df.n :
                     ChannelSum(S, i) > Cardinality(S) * call.mean_power}
    IN  call.out = Float(RoundHalfEven(10000 * Cardinality(active), df.n))

\* A sample exactly at the threshold, and it is not counted.
C7_Witness ==
  /\ IsDC
  /\ call.mean_power # 0
  /\ df.n > 0
  /\ PresentSeq(call.vars_group) # <<>>
  /\ LET S == Range(PresentSeq(call.vars_group))
     IN  /\ \E i \in 1..df.n : ChannelSum(S, i) = Cardinality(S) * call.mean_power
         /\ \E i \in 1..df.n : ChannelSum(S, i) > Cardinality(S) * call.mean_power
         /\ call.out.value
              = RoundHalfEven(10000 * Cardinality({i \in 1..df.n :
                   ChannelSum(S, i) > Cardinality(S) * call.mean_power}), df.n)
         /\ call.out.value < 10000

\* C8: calculate_duty_cycle returns 0, and does not raise, when the mean
\* power is 0, the group list is empty or no channel of it is in the table.
C8_DutyCycleZeroPolicy ==
  (IsDC /\ (\/ call.mean_power = 0
            \/ call.vars_group = <<>>
            \/ PresentSeq(call.vars_group) = <<>>)) =>
    call.out = Float(0)

\* Mean power 0 on a table whose present channels have positive samples.
C8_Witness ==
  /\ IsDC
  /\ call.mean_power = 0
  /\ PresentSeq(call.vars_group) # <<>>
  /\ \E i \in 1..df.n : ChannelSum(Range(PresentSeq(call.vars_group)), i) > 0
  /\ call.out = Float(0)

\* The duty cycle of a group of the audit with the per-sample power (the sum
\* of the present channels) compared with 10 % of the group's own mean power
\* (the mean of that sum, as reported in the group summary).
SameScaleDuty(group, entry) ==
  LET S == Range(PresentSeq(group))
      active == {i \in 1..df.n : ChannelSum(S, i) > Total(entry).mean}
  IN  (S # {} /\ Total(entry).mean # 0) =>
        DutyCycle(entry) = Float(RoundHalfEven(10000 * Cardinality(active), df.n))

\* C9: in an assembled audit each group's duty cycle is the percentage of
\* samples at which the group's power exceeds 10 % of the group's own mean
\* power, both on the same scale.
C9_DutyCycleOwnMean ==
  last_audit_results # <<>> =>
    /\ SameScaleDuty(vars_elektrisch, last_audit_results[1].Elektrisch)
    /\ SameScaleDuty(vars_pneumatisch, last_audit_results[1].Pneumatisch)

\* C10: time_of_peak is the timestamp of the lowest index at which the
\* channel attains its maximum.
C10_TimeOfPeakFirstMax ==
  (IsCM /\ call.out.raised = "None") =>
    \A k \in DOMAIN call.out.details :
      LET v == df.col[call.out.details[k].key]
          t == df.col[TimeCol]
      IN  \E i \in 1..df.n :
            /\ \A j \in 1..df.n : v[j] <= v[i]
            /\ \A j \in 1..(i - 1) : v[j] < v[i]
            /\ call.out.details[k].value.time_of_peak = 100 * t[i]

\* The maximum is attained at two samples with different timestamps.
C10_Witness ==
  /\ IsCM
  /\ call.out.raised = "None"
  /\ \E k \in DOMAIN call.out.details :
       LET v == df.col[call.out.details[k].key]
           t == df.col[TimeCol]
       IN  \E i, j \in 1..df.n :
             /\ i < j
             /\ v[i] = v[j]
             /\ \A m \in 1..df.n : v[m] <= v[i]
             /\ t[i] # t[j]
             /\ call.out.details[k].value.time_of_peak = 100 * t[i]

\* C11: degenerate series do not raise: on a table with exactly one row every
\* present channel gets total_energy_kWh = 0 and time_of_peak = that row's
\* timestamp; on a table with zero rows every present channel gets energy 0
\* and a time_of_peak that is null (no timestamp).
C11_DegenerateSeriesDoNotRaise ==
  (/\ IsCM
   /\ TimeCol \in columns(df)
   /\ PresentSeq(call.vars_group) # <<>>
   /\ df.n <= 1) =>
    /\ call.out.raised = "None"
    /\ Keys(call.out.details) = PresentSeq(call.vars_group)
    /\ \A k \in DOMAIN call.out.details :
         LET m == call.out.details[k].value
         IN  /\ m.total_energy_kWh = 0
             /\ df.n = 1 => m.time_of_peak = 100 * df.col[TimeCol][1]
             /\ df.n = 0 => m.time_of_peak \notin Int

MaxOfSet(S) == CHOOSE m \in S : \A x \in S : x <= m

MinOfSet(S) == CHOOSE m \in S : \A x \in S : m <= x

\* C12: the group summary's max, min, range and mean are those of the
\* composite series (the per-sample sum of the present channels): max is the
\* maximum over the samples of the per-sample sum, which is at most the sum of
\* the channels' maxima; likewise min, range = max - min, and mean.
C12_SummaryOverCompositeSeries ==
  (IsCM /\ call.out.raised = "None" /\ PresentSeq(call.vars_group) # <<>>) =>
    LET vv == PresentSeq(call.vars_group)
        S(i) == ChannelSum(Range(vv), i)
        composite == {S(i) : i \in 1..df.n}
        ChMax(k) == MaxOfSet({df.col[vv[k]][i] : i \in 1..df.n})
        ChMin(k) == MinOfSet({df.col[vv[k]][i] : i \in 1..df.n})
        sum == call.out.summary
    IN  /\ sum.max = RoundHalfEven(MaxOfSet(composite), 10)
        /\ sum.min = RoundHalfEven(MinOfSet(composite), 10)
        /\ sum.range = RoundHalfEven(MaxOfSet(composite) - MinOfSet(composite), 10)
        /\ sum.mean = RoundHalfEven(Sigma(S, 1, df.n), 10 * df.n)
        /\ MaxOfSet(composite) <= Sigma(ChMax, 1, Len(vv))
        /\ MinOfSet(composite) >= Sigma(ChMin, 1, Len(vv))

\* Two channels that peak at different samples: the group max is strictly
\* below the sum of the returned channel maxima.
C12_Witness ==
  /\ IsCM
  /\ call.out.raised = "None"
  /\ Len(call.out.details) = 2
  /\ call.out.summary.max
       < call.out.details[1].value.max + call.out.details[2].value.max
  /\ call.out.summary.range
       < call.out.details[1].value.range + call.out.details[2].value.range

ChannelFields ==
  { "mean", "median", "max", "min", "std_dev", "range", "total_energy_kWh",
    "time_of_peak" }

\* C13 as stated: with at least one present channel the group summary has
\* the same set of fields as each per-channel metrics record (mean, median,
\* max, min, std_dev, range, total energy, time_of_peak).
C13_SummarySameFieldsAsChannel ==
  (IsCM /\ call.out.raised = "None" /\ PresentSeq(call.vars_group) # <<>>) =>
    \A k \in DOMAIN call.out.details :
      /\ DOMAIN call.out.details[k].value = ChannelFields
      /\ DOMAIN call.out.summary = DOMAIN call.out.details[k].value

\* C13 amended: with at least one present channel every per-channel record
\* has the eight fields, and the group summary has those fields except
\* median and time_of_peak.
C13_SummaryFieldsWithoutMedianAndPeak ==
  (IsCM /\ call.out.raised = "None" /\ PresentSeq(call.vars_group) # <<>>) =>
    /\ DOMAIN call.out.summary = ChannelFields \ {"median", "time_of_peak"}
    /\ \A k \in DOMAIN call.out.details :
         DOMAIN call.out.details[k].value = ChannelFields

C13_Witness ==
  /\ IsCM
  /\ call.out.raised = "None"
  /\ call.out.details # <<>>
  /\ "median" \in DOMAIN call.out.details[1].value
  /\ "time_of_peak" \in DOMAIN call.out.details[1].value
  /\ "median" \notin DOMAIN call.out.summary
  /\ "time_of_peak" \notin DOMAIN call.out.summary
  /\ "std_dev" \in DOMAIN call.out.summary

HasAudit == last_audit_results # <<>>

Audit == last_audit_results[1]

Overall == Audit["Overall Summary"]

\* The energy and the mean power a group of the audit contributes: those of
\* its summary, 0 for a group without a present channel (summary {}).
GroupEnergy(entry) ==
  IF Total(entry) = EmptyDict THEN 0 ELSE Total(entry).total_energy_kWh

GroupMean(entry) == IF Total(entry) = EmptyDict THEN 0 ELSE Total(entry).mean

\* The sum of the per-channel energies of a group of the audit.
ChannelEnergies(entry) ==
  LET E(k) == entry.Variables[k].value.total_energy_kWh
  IN  Sigma(E, 1, Len(entry.Variables))

\* C14: in every assembled audit, Total Energy is the sum over the two groups
\* of the group summary's total_energy_kWh, a group with no present channel
\* contributing 0 (and having the summary {}); it is the groups' composite
\* energy, not the sum of the per-channel energies.
C14_TotalEnergySumOfGroups ==
  HasAudit =>
    /\ Overall["Total Energy (kWh)"]
         = GroupEnergy(Audit.Elektrisch) + GroupEnergy(Audit.Pneumatisch)
    /\ (PresentSeq(vars_elektrisch) = <<>>) <=> (Total(Audit.Elektrisch) = EmptyDict)
    /\ (PresentSeq(vars_pneumatisch) = <<>>) <=> (Total(Audit.Pneumatisch) = EmptyDict)
    /\ \A g \in {vars_elektrisch, vars_pneumatisch} :
         LET entry == IF g = vars_elektrisch THEN Audit.Elektrisch
                      ELSE Audit.Pneumatisch
             S(i) == ChannelSum(Range(PresentSeq(g)), i)
             t == df.col[TimeCol]
             Step(i) == (S(i) + S(i + 1)) * (t[i + 1] - t[i])
         IN  PresentSeq(g) # <<>> =>
               Total(entry).total_energy_kWh
                 = RoundHalfEven(Sigma(Step, 1, df.n - 1), 720000)

\* An audit with no pneumatic channel whose Total Energy is not the sum of
\* the per-channel energies.
C14_Witness ==
  /\ HasAudit
  /\ Total(Audit.Pneumatisch) = EmptyDict
  /\ Len(Audit.Elektrisch.Variables) = 2
  /\ Overall["Total Energy (kWh)"] = Total(Audit.Elektrisch).total_energy_kWh
  /\ Overall["Total Energy (kWh)"] # ChannelEnergies(Audit.Elektrisch)

\* C15: in every assembled audit, Mean Power is the mean of the two groups'
\* summary means (each group weighted equally, a group with no present
\* channel counting with mean 0), rounded to 2 decimals.
C15_MeanPowerMeanOfGroupMeans ==
  HasAudit =>
    Abs(2 * Overall["Mean Power (W)"]
        - (GroupMean(Audit.Elektrisch) + GroupMean(Audit.Pneumatisch))) <= 1

\* Two electrical channels, one pneumatic channel, different group means; and
\* the mean power is not the mean over the three channels.
C15_WitnessUnequalGroups ==
  /\ HasAudit
  /\ Len(Audit.Elektrisch.Variables) = 2
  /\ Len(Audit.Pneumatisch.Variables) = 1
  /\ Total(Audit.Elektrisch).mean > Total(Audit.Pneumatisch).mean + 2
  /\ Total(Audit.Pneumatisch).mean > 0
  /\ 2 * Overall["Mean Power (W)"]
       = Total(Audit.Elektrisch).mean + Total(Audit.Pneumatisch).mean

\* An audit with no pneumatic channel: Mean Power is half the electrical
\* group's mean.
C15_Witness ==
  /\ HasAudit
  /\ Total(Audit.Pneumatisch) = EmptyDict
  /\ Total(Audit.Elektrisch) # EmptyDict
  /\ Total(Audit.Elektrisch).mean > 2
  /\ Abs(2 * Overall["Mean Power (W)"] - Total(Audit.Elektrisch).mean) <= 1

\* C16: in every assembled audit, Energy Rate is Total Energy divided by
\* (last timestamp - first timestamp) / 3600, rounded to 4 decimals, when
\* that duration is positive, and 0 when the duration is 0 or negative.
C16_EnergyRate ==
  HasAudit =>
    LET dur  == df.col[TimeCol][df.n] - df.col[TimeCol][1]
        te   == Overall["Total Energy (kWh)"]
        rate == Overall["Energy Rate (kWh/hour)"]
    IN  /\ dur > 0 => 2 * Abs(rate * dur - te * 3600) <= dur
        /\ dur <= 0 => rate = 0

\* Timestamps that go back: a negative duration, a non-zero Total Energy,
\* and the rate is 0.
C16_Witness ==
  /\ HasAudit
  /\ df.col[TimeCol][df.n] - df.col[TimeCol][1] < 0
  /\ Overall["Total Energy (kWh)"] # 0
  /\ Overall["Energy Rate (kWh/hour)"] = 0

\* Duration 0 with more than one sample, a non-zero Total Energy, rate 0.
C16_WitnessZeroDuration ==
  /\ HasAudit
  /\ df.n > 1
  /\ df.col[TimeCol][df.n] = df.col[TimeCol][1]
  /\ Overall["Total Energy (kWh)"] # 0
  /\ Overall["Energy Rate (kWh/hour)"] = 0

\* All channels of the audit, electrical before pneumatic, each group in
\* group-list order.
AllChannels == Audit.Elektrisch.Variables \o Audit.Pneumatisch.Variables

\* The first channel of AllChannels with the highest value of metric m.
TopChannel(m) ==
  LET i == CHOOSE i \in DOMAIN AllChannels :
             /\ \A j \in DOMAIN AllChannels :
                  AllChannels[j].value[m] <= AllChannels[i].value[m]
             /\ \A j \in 1..(i - 1) :
                  AllChannels[j].value[m] < AllChannels[i].value[m]
  IN  AllChannels[i].key

TopMetrics == {"mean", "total_energy_kWh", "max"}

\* C17: in every assembled audit, Top Variables names for each of the metrics
\* mean, total energy and max the channel, over all channels of all groups,
\* with the highest value of that metric, ties going to the first channel
\* encountered; it is empty (null/absent) only when no group has a channel.
C17_TopVariables ==
  HasAudit =>
    LET top == Overall["Top Variables"]
    IN  IF AllChannels = <<>> THEN top = EmptyDict
        ELSE /\ DOMAIN top = TopMetrics
             /\ \A m \in TopMetrics : top[m].name = TopChannel(m)

\* C18: group isolation: when the button is pressed on a table with the time
\* column, every group whose metrics compute without failure is in the
\* resulting audit with its details, summary and duty cycle, also when the
\* computation of the other group fails.
C18_GroupIsolation ==
  (call.op = "render_data_to_json" /\ TimeCol \in columns(df) /\ df.n > 0) =>
    \A g \in {vars_elektrisch, vars_pneumatisch} :
      LET out == compute_metrics(df, g, TimeCol)
      IN  out.raised = "None" =>
            /\ HasAudit
            /\ audit_filename \in DOMAIN store
            /\ LET entry == IF g = vars_elektrisch THEN Audit.Elektrisch
                            ELSE Audit.Pneumatisch
               IN  /\ entry.Variables = out.details
                   /\ Total(entry) = out.summary
                   /\ DutyCycle(entry)
                        = calculate_duty_cycle(df, g, dict_get(out.summary, "mean", 0))

\* C19: while the uploaded table has no elapsedTime column, no step of the
\* handler (the rerun after the upload, a press of the button) writes an
\* audit to the WorkingStore or changes last_audit_results, and the error is
\* shown.
C19_MissingTimeColumnNoPartialResult ==
  [][ (uploaded_file' # "None" /\ TimeCol \notin columns(df')) =>
        /\ store' = store
        /\ last_audit_results' = last_audit_results
        /\ ui_error' = "missing_elapsedTime" ]_vars

\* The button was pressed on a table with rows and channels of both groups
\* but no time column: nothing is stored, the error is shown.
C19_Witness ==
  /\ call.op = "render_data_to_json"
  /\ TimeCol \notin columns(df)
  /\ df.n > 0
  /\ PresentSeq(vars_elektrisch) # <<>>
  /\ PresentSeq(vars_pneumatisch) # <<>>
  /\ store = <<>>
  /\ last_audit_results = <<>>
  /\ ui_error = "missing_elapsedTime"

ReturnedRecords ==
  LET vv == PresentSeq(call.vars_group)
  IN  { [rec |-> call.out.details[k].value,
         series |-> {df.col[call.out.details[k].key][i] : i \in 1..df.n}] :
          k \in DOMAIN call.out.details }
      \cup (IF call.out.summary = EmptyDict THEN {}
            ELSE { [rec |-> [f \in {"max", "min", "range"} |-> call.out.summary[f]],
                    series |-> {ChannelSum(Range(vv), i) : i \in 1..df.n}] })

\* C22 as stated: in every returned metrics record (per channel and per
\* group) the 2-decimal range equals the difference of the 2-decimal max and
\* min.
C22_RangeIsMaxMinusMin ==
  (IsCM /\ call.out.raised = "None") =>
    \A r \in ReturnedRecords : r.rec.range = r.rec.max - r.rec.min

\* C22 amended: range is the difference of the unrounded maximum and minimum
\* rounded to 2 decimals, and so differs from the difference of the rounded
\* max and min fields by at most 0.01.
C22_RangeWithinRounding ==
  (IsCM /\ call.out.raised = "None") =>
    \A r \in ReturnedRecords :
      /\ 2 * Abs(10 * r.rec.range - (MaxOfSet(r.series) - MinOfSet(r.series))) <= 10
      /\ Abs(r.rec.range - (r.rec.max - r.rec.min)) <= 1

\* A channel with readings 0.006 and 2.004: max 2.0, min 0.01, range 2.0.
C22_Witness ==
  /\ IsCM
  /\ call.out.raised = "None"
  /\ \E k \in DOMAIN call.out.details :
       LET m == call.out.details[k].value
       IN  /\ m.range = m.max - m.min + 1
           /\ m.range > 0

\* The sum of the total_energy_kWh values of the returned channels.
DetailsEnergy ==
  LET E(k) == call.out.details[k].value.total_energy_kWh
  IN  Sigma(E, 1, Len(call.out.details))

\* Twice the trapezoidal integral of channel c (0.001 W s).
ChannelTrapz2(c) ==
  LET Step(i) == (df.col[c][i] + df.col[c][i + 1])
                 * (df.col[TimeCol][i + 1] - df.col[TimeCol][i])
  IN  Sigma(Step, 1, df.n - 1)

\* C23 as stated: the group summary's total_energy_kWh equals the sum of the
\* total_energy_kWh values reported for the group's channels.
C23_GroupEnergyIsSumOfChannelEnergies ==
  (IsCM /\ call.out.raised = "None" /\ call.out.details # <<>>) =>
    call.out.summary.total_energy_kWh = DetailsEnergy

\* C23 amended: the group energy is the rounded sum of the channels'
\* unrounded integrals; it equals the reported energy of a single channel,
\* and for k channels differs from the sum of their reported (4-decimal)
\* energies by at most (k + 1) / 2 units of 0.0001 kWh.
C23_GroupEnergyWithinRounding ==
  (IsCM /\ call.out.raised = "None" /\ call.out.details # <<>>) =>
    LET k == Len(call.out.details)
        I(j) == ChannelTrapz2(call.out.details[j].key)
        e == call.out.summary.total_energy_kWh
    IN  /\ 2 * Abs(720000 * e - Sigma(I, 1, k)) <= 720000
        /\ 2 * Abs(e - DetailsEnergy) <= k + 1
        /\ k = 1 => e = DetailsEnergy

\* Two channels whose reported energies do not add up to the group's.
C23_Witness ==
  /\ IsCM
  /\ call.out.raised = "None"
  /\ Len(call.out.details) = 2
  /\ call.out.summary.total_energy_kWh > 0
  /\ call.out.details[1].value.total_energy_kWh > 0
  /\ call.out.details[2].value.total_energy_kWh > 0
  /\ call.out.summary.total_energy_kWh # DetailsEnergy

\* C24: every audit assembled by a successful run has the top-level keys
\* metadata, Elektrisch, Pneumatisch and Overall Summary; each group object
\* has exactly the keys Variables, Total <GroupName> and Duty Cycle (%), also
\* for a group without a present channel; and the record saved to the store
\* is the one kept in the session.
C24_AuditShape ==
  HasAudit =>
    /\ DOMAIN Audit = {"metadata", "Elektrisch", "Pneumatisch", "Overall Summary"}
    /\ DOMAIN Audit["Elektrisch"]
         = {"Variables", "Total Elektrisch", "Duty Cycle (%)"}
    /\ DOMAIN Audit["Pneumatisch"]
         = {"Variables", "Total Pneumatisch", "Duty Cycle (%)"}
    /\ DOMAIN Audit["Overall Summary"]
         = {"Total Energy (kWh)", "Mean Power (W)", "Energy Rate (kWh/hour)",
            "Top Variables"}
    /\ audit_filename \in DOMAIN store
    /\ store[audit_filename] = Audit

\* An audit of a table without a pneumatic channel: the Pneumatisch object
\* has its three keys, with empty Variables and an empty summary.
C24_Witness ==
  /\ HasAudit
  /\ PresentSeq(vars_elektrisch) # <<>>
  /\ PresentSeq(vars_pneumatisch) = <<>>
  /\ DOMAIN Audit["Pneumatisch"]
       = {"Variables", "Total Pneumatisch", "Duty Cycle (%)"}
  /\ Audit["Pneumatisch"]["Variables"] = <<>>
  /\ Audit["Pneumatisch"]["Total Pneumatisch"] = EmptyDict
  /\ store[audit_filename] = Audit

\* The k-th smallest value of the series v (k = 1 is the minimum).
Kth(v, k) ==
  CHOOSE x \in {v[i] : i \in DOMAIN v} :
    /\ Cardinality({i \in DOMAIN v : v[i] < x}) < k
    /\ k <= Cardinality({i \in DOMAIN v : v[i] <= x})

\* C25: for every present channel, mean is the arithmetic mean of all values,
\* median the middle value of the sorted values (the average of the two
\* middle values for an even count), max and min the largest and smallest
\* value, each over the whole series and rounded to 2 decimals.
C25_ChannelStatistics ==
  (IsCM /\ call.out.raised = "None") =>
    \A k \in DOMAIN call.out.details :
      LET v == df.col[call.out.details[k].key]
          m == call.out.details[k].value
          n == df.n
          V(i) == v[i]
          mid2 == Kth(v, (n + 1) \div 2) + Kth(v, n \div 2 + 1)
      IN  /\ 2 * Abs(10 * n * m.mean - Sigma(V, 1, n)) <= 10 * n
          /\ 2 * Abs(20 * m.median - mid2) <= 20
          /\ 2 * Abs(10 * m.max - Kth(v, n)) <= 10
          /\ 2 * Abs(10 * m.min - Kth(v, 1)) <= 10
          /\ \A i \in 1..n : v[i] <= Kth(v, n) /\ Kth(v, 1) <= v[i]

\* Three samples, two low and one high (as [100, 200, 100]): the mean is not
\* a multiple of 0.01 and differs from the median.
C25_Witness ==
  /\ IsCM
  /\ call.out.raised = "None"
  /\ df.n = 3
  /\ \E k \in DOMAIN call.out.details :
       LET v == df.col[call.out.details[k].key]
           m == call.out.details[k].value
       IN  /\ v[1] = v[3] /\ v[2] > v[1]
           /\ (v[1] + v[2] + v[3]) % 30 # 0
           /\ m.median < m.mean /\ m.mean < m.max
           /\ m.min < m.max

\* Two different samples: the median is their rounded average.
C25_WitnessEvenCount ==
  /\ IsCM
  /\ call.out.raised = "None"
  /\ df.n = 2
  /\ \E k \in DOMAIN call.out.details :
       LET v == df.col[call.out.details[k].key]
           m == call.out.details[k].value
       IN  /\ v[1] # v[2]
           /\ m.min < m.median /\ m.median < m.max

\* C26: WorkingStore round trip: after save_audit(audit, name) has returned,
\* load_audit(name) with the same name returns a value equal to audit, for
\* every name, with or without a ".json" suffix; and list_audits() contains
\* the file that was written.
C26_StoreRoundTrip ==
  call.op = "save_audit" =>
    /\ load_audit(store, call.filename) = <<call.audit_json>>
    /\ call.out \in list_audits(store)

\* An index holds at most one entry per id.
UniqueIds(index) == Cardinality(index_ids(index)) = Len(index)

\* The entries of an index other than the one of the id given, in order.
Others(index, id) == SelectSeq(index, LAMBDA e : e.id # id)

\* What C27 says of a step that is an add_entry call of session i.
AddEntryStep(i) ==
  LET old == db[i].index
      new == db'[i].index
      id  == call'.id
  IN  /\ call'.raised = "None"
      /\ Len(new) >= 1
      /\ new[Len(new)] = call'.out
      /\ new[Len(new)].id = id
      /\ SubSeq(new, 1, Len(new) - 1) = Others(old, id)
      /\ (id \in index_ids(old)) => Len(new) = Len(old)
      /\ (id \notin index_ids(old)) => Len(new) = Len(old) + 1

\* What C27 says of a step that is a delete_entry call of session i.
DeleteEntryStep(i) ==
  LET old == db[i].index
      new == db'[i].index
      id  == call'.id
  IN  /\ call'.out = (id \in index_ids(old))
      /\ new = Others(old, id)
      /\ call'.out => Len(new) = Len(old) - 1
      /\ ~call'.out => new = old

\* C27: on a LiteratureDB instance the index holds at most one entry per id
\* after every call; add_entry with an id already in the index replaces that
\* entry (size unchanged, new entry last, the others unchanged in order),
\* add_entry with a new id grows the index by one, and delete_entry removes
\* exactly the entry of that id and returns True iff it existed.
C27_IndexOneEntryPerId ==
  [][\A i \in Sessions :
       /\ UniqueIds(db'[i].index)
       /\ (call'.op = "add_entry" /\ call'.session = i) => AddEntryStep(i)
       /\ (call'.op = "delete_entry" /\ call'.session = i)
            => DeleteEntryStep(i)]_vars

\* An add_entry call has replaced the entry of its id in an index of two
\* entries, the other entry staying first.
C27_Witness ==
  /\ call.op = "add_entry"
  /\ call.existed
  /\ Len(db[call.session].index) = 2
  /\ db[call.session].index[2] = call.out
  /\ db[call.session].index[1].id # call.id

\* A delete_entry call has returned True and left the other entry.
C27_WitnessDelete ==
  /\ call.op = "delete_entry"
  /\ call.out
  /\ Len(db[call.session].index) = 1

\* An add_entry or delete_entry step keeps in the persisted index every id
\* other than the one the call is about.
KeepsOtherIds ==
  (call'.op \in {"add_entry", "delete_entry"})
    => \A id \in index_ids(disk.index) \ {call'.id} :
         id \in index_ids(disk'.index)

\* Every id an open instance lists can be read through that instance.
ListedIdsReadable ==
  \A i \in Sessions :
    db[i].open =>
      \A id \in index_ids(db[i].index) :
        get_entry_by_id(db[i].index, disk, id).raised = "None"

\* C28: with two LiteratureDB instances on the same directory, an entry in
\* the persisted index.json is never dropped by an add_entry or delete_entry
\* of a different id, and every id an instance lists with get_all_entries
\* can be read by its get_entry_by_id without error.
C28_TwoInstancesKeepEntries ==
  [][KeepsOtherIds]_vars /\ []ListedIdsReadable

\* The first half of C28 alone.
C28_NoLostUpdate == [][KeepsOtherIds]_vars

\* The second half of C28 alone.
C28_ListedIdsReadable == ListedIdsReadable

\* With one instance only, both halves hold.
C28_SingleInstance ==
  [][~db'[2].open => (KeepsOtherIds /\ ListedIdsReadable')]_vars

\* C29: after delete_entry(id) of the only LiteratureDB instance has returned
\* True, no file written for that id remains on disk, neither its JSON nor
\* a PDF stored by an earlier add_entry of the same id.
C29_DeleteRemovesAllFiles ==
  (/\ ~db[2].open
   /\ call.op = "delete_entry"
   /\ call.out)
    => /\ call.id \notin DOMAIN disk.json
       /\ call.id \notin disk.pdf

\* The JSON file of a deleted id never remains.
C29_DeleteRemovesJson ==
  (/\ ~db[2].open
   /\ call.op = "delete_entry"
   /\ call.out)
    => call.id \notin DOMAIN disk.json

\* The log of the batch names the files so far, each once, in upload order.
ProcessedInOrder ==
  /\ Len(batch.log) = batch.i
  /\ batch.i <= Len(batch.files)
  /\ \A k \in DOMAIN batch.log : batch.log[k].name = batch.files[k]
  /\ (batch.status = "complete") => Len(batch.log) = Len(batch.files)

\* A file has got its entry iff its cleaned response parsed as JSON.
EntryIffParsed ==
  \A k \in DOMAIN batch.log : batch.log[k].added = batch.log[k].parsed

\* C30: in the batch paper analysis every uploaded PDF is processed exactly
\* once in upload order, the batch always reaches the status 'complete', and
\* a file gets an entry in the literature database iff its cleaned response
\* parsed as JSON (a provider error or unparseable response adds none and
\* does not stop the remaining files).
C30_BatchCompletesEntryIffParsed ==
  /\ [](ProcessedInOrder /\ EntryIffParsed)
  /\ (batch.status = "running") ~> (batch.status = "complete")

\* The parts of C30 other than 'parsed implies entry'.
C30_BatchCompletes ==
  /\ [](ProcessedInOrder
        /\ \A k \in DOMAIN batch.log :
             batch.log[k].added => batch.log[k].parsed)
  /\ (batch.status = "running") ~> (batch.status = "complete")

\* With responses that are JSON objects or no JSON, a file gets an entry iff
\* its response parsed.
C30_EntryIffParsedObject ==
  \A k \in DOMAIN batch.log :
    (json_loads(clean_response(batch.log[k].response)).data
       # [kind |-> "array", title |-> "None"])
      => batch.log[k].added = batch.log[k].parsed

====
